---- MODULE Spec2Model ----
(***************************************************************************)
(* Model of analyze_flow.py: the flow-analysis pipeline (extraction,       *)
(* summary, image synthesis, report) and the file cache that fronts the    *)
(* text- and image-generation services.                                    *)
(*                                                                         *)
(* Strings are sequences of tokens.  Text that comes from the input        *)
(* document or from a service is a sequence of one-character tokens over   *)
(* a small alphabet; a literal fragment of the program (an f-string        *)
(* template, a key prefix, an enumerated word such as CHAPTER or button)   *)
(* is always the same single token and contains no character of that      *)
(* alphabet, so two modelled strings are equal exactly when the Python     *)
(* strings are.  A Python dict is a function whose DOMAIN is the set of    *)
(* keys present.                                                           *)
(***************************************************************************)
EXTENDS Integers, Sequences, FiniteSets, TLC

VARIABLES
    stage,              \* position of main(): idle, extract, summary, image, report, done, exit1, crashed
    flow_data,          \* the loaded flow document (dict)
    skip_image,         \* args.skip_image
    idx,                \* number of steps of flow_data consumed by the extraction loop
    user_interactions,  \* list built by extract_user_interactions
    flow_summary,       \* result of generate_flow_summary
    image_filename,     \* first component of generate_social_media_image's result
    image_url,          \* second component
    cache,              \* CACHE_DIR: cache key -> content of <key>.json
    files,              \* image files present in the working directory
    now,                \* wall clock (seconds)
    exit_status,        \* process exit status of the run: -1 while running
    report,             \* the report written by create_markdown_report
    last,               \* observation of the most recent component call of the run
    first_gen,          \* (kind, semantic inputs) -> first value obtained from the service
    calls,              \* service calls issued by the current run
    run,                \* number of runs started
    precond,            \* outcome of the precondition checks of the current run
    tampered,           \* files removed / cache files damaged by the environment so far
    run_ok,             \* no generation of the current run has failed
    prev,               \* results of the last full run whose generations all succeeded
                        \* and whose image is still in place at its end
    cache_op            \* observation of the most recent direct cache operation

vars == <<stage, flow_data, skip_image, idx, user_interactions, flow_summary,
          image_filename, image_url, cache, files, now, exit_status, report,
          last, first_gen, calls, run, precond, tampered, run_ok, prev, cache_op>>

(***************************************************************************)
(* Bounds                                                                  *)
(***************************************************************************)
MaxRuns == 2
MaxClock == 1
MaxTamper == 1
MaxSteps == 3

(***************************************************************************)
(* Python values and strings                                               *)
(***************************************************************************)
Lit(t) == <<t>>
US == Lit("_")
EmptyStr == <<>>

PyNone == [t |-> "none", a |-> <<>>, b |-> <<>>]
PyStr(s) == [t |-> "str", a |-> s, b |-> <<>>]
PyPair(f, u) == [t |-> "pair", a |-> f, b |-> u]

\* Python truthiness of a value: None and '' are falsy, a 2-tuple is truthy
Truthy(v) == \/ v.t = "pair"
             \/ v.t = "str" /\ v.a # <<>>

Min(x, y) == IF x <= y THEN x ELSE y

\* dict.get(k, default)
Get(d, k, default) == IF k \in DOMAIN d THEN d[k] ELSE default

Digits == <<"0", "1", "2", "3", "4", "5", "6", "7", "8", "9">>

RECURSIVE ToStr(_)
\* str(n) for a natural number
ToStr(n) == IF n < 10 THEN <<Digits[n + 1]>>
            ELSE ToStr(n \div 10) \o <<Digits[(n % 10) + 1]>>

RECURSIVE LStrip(_)
LStrip(s) == IF s # <<>> /\ Head(s) = " " THEN LStrip(Tail(s)) ELSE s

RECURSIVE RStrip(_)
RStrip(s) == IF s # <<>> /\ s[Len(s)] = " " THEN RStrip(SubSeq(s, 1, Len(s) - 1)) ELSE s

\* str.strip()
Strip(s) == RStrip(LStrip(s))

\* s[:n]
Prefix(s, n) == SubSeq(s, 1, Min(n, Len(s)))

\* s.replace(' ', '_').replace('/', '_')
ReplaceSep(s) == [i \in DOMAIN s |-> IF s[i] \in {" ", "/"} THEN "_" ELSE s[i]]

\* hashlib.md5(s.encode()).hexdigest(): an injective encoding of s
md5_hexdigest(s) == Lit("md5:") \o s

(***************************************************************************)
(* Cache store                                                             *)
(***************************************************************************)
get_cache_key(prefix, data_string) == md5_hexdigest(prefix \o US \o data_string)

\* content of a cache file that json.load rejects
Malformed == [malformed |-> TRUE]

IsJson(c) == "malformed" \notin DOMAIN c

\* get_cached_item without the os.path.exists test of line 59
get_cached_item_trusting_entry(c, fs, cache_key, item_type) ==
    IF cache_key \notin DOMAIN c
    THEN [raised |-> FALSE, val |-> PyNone]
    ELSE LET cache_data == c[cache_key] IN
         IF ~IsJson(cache_data)
         THEN [raised |-> TRUE, val |-> PyNone]
         ELSE CASE item_type = "description" ->
                     [raised |-> FALSE,
                      val |-> IF "description" \in DOMAIN cache_data
                              THEN PyStr(cache_data["description"]) ELSE PyNone]
                [] item_type = "summary" ->
                     [raised |-> FALSE,
                      val |-> IF "summary" \in DOMAIN cache_data
                              THEN PyStr(cache_data["summary"]) ELSE PyNone]
                [] item_type = "image" ->
                     [raised |-> FALSE,
                      val |-> IF /\ "filename" \in DOMAIN cache_data
                                 /\ cache_data["filename"] # <<>>
                              THEN PyPair(cache_data["filename"], Get(cache_data, "url", <<>>))
                              ELSE PyNone]
                [] OTHER -> [raised |-> FALSE, val |-> PyNone]

\* get_cached_item: [raised, val]; raised = json.load threw
get_cached_item(c, fs, cache_key, item_type) ==
    IF cache_key \notin DOMAIN c
    THEN [raised |-> FALSE, val |-> PyNone]
    ELSE LET cache_data == c[cache_key] IN
         IF ~IsJson(cache_data)
         THEN [raised |-> TRUE, val |-> PyNone]
         ELSE CASE item_type = "description" ->
                     [raised |-> FALSE,
                      val |-> IF "description" \in DOMAIN cache_data
                              THEN PyStr(cache_data["description"]) ELSE PyNone]
                [] item_type = "summary" ->
                     [raised |-> FALSE,
                      val |-> IF "summary" \in DOMAIN cache_data
                              THEN PyStr(cache_data["summary"]) ELSE PyNone]
                [] item_type = "image" ->
                     [raised |-> FALSE,
                      val |-> IF /\ "filename" \in DOMAIN cache_data
                                 /\ cache_data["filename"] # <<>>
                                 /\ cache_data["filename"] \in fs
                              THEN PyPair(cache_data["filename"], Get(cache_data, "url", <<>>))
                              ELSE PyNone]
                [] OTHER -> [raised |-> FALSE, val |-> PyNone]

\* CacheRecord dumping a summary under the key of a description
CacheRecord_summary_as_description(item, item_type, t) ==
    CASE item_type = "description" -> [description |-> item.a]
      [] item_type = "summary" -> [description |-> item.a]
      [] item_type = "image" -> [filename |-> item.a, url |-> item.b, created |-> ToStr(t)]
      [] OTHER -> Malformed

\* the JSON object cache_item dumps
CacheRecord(item, item_type, t) ==
    CASE item_type = "description" -> [description |-> item.a]
      [] item_type = "summary" -> [summary |-> item.a]
      [] item_type = "image" -> [filename |-> item.a, url |-> item.b, created |-> ToStr(t)]
      [] OTHER -> Malformed

\* cache_item: the cache directory after the write
cache_item(c, cache_key, item, item_type, t) ==
    [k \in DOMAIN c \cup {cache_key} |->
        IF k = cache_key THEN CacheRecord(item, item_type, t) ELSE c[k]]

(***************************************************************************)
(* External services: what a call does when it is made                     *)
(***************************************************************************)
TextFail == [ok |-> FALSE, content |-> <<>>]
TextOk(r) == [ok |-> TRUE, content |-> r]

\* raw message contents the chat completion endpoint may return
TextResponses == {<<" ">>, <<" ", "x">>}
TextOutcomes == {TextFail} \cup {TextOk(r) : r \in TextResponses}

ImageUrl == <<"u">>
\* images.generate raises; requests.get / raise_for_status raises; open() raises;
\* f.write raises after open() created the file; everything succeeds
ImageOutcomes == {"service_fail", "download_fail", "open_fail", "write_fail", "ok"}

\* an image generation outcome in the shape of a text outcome
ImageOutcome(out) == [ok |-> out = "ok", content |-> <<>>]

(***************************************************************************)
(* Description generator                                                   *)
(***************************************************************************)
EmptyDict == <<>>

clicked_element_of(step) == Get(Get(step, "clickContext", EmptyDict), "text", Lit("N/A"))
element_type_of(step) == Get(Get(step, "clickContext", EmptyDict), "elementType", Lit("unknown"))

\* line 92: the data string of a description fingerprint
interaction_data_string(id, text) == id \o US \o text

describe_cache_key(step) ==
    get_cache_key(Lit("interaction"),
                  interaction_data_string(Get(step, "id", EmptyStr), clicked_element_of(step)))

\* lines 134-141
describe_fallback(step) ==
    LET element_type == element_type_of(step)
        clicked_element == clicked_element_of(step)
    IN  CASE element_type = Lit("button") -> Lit("Clicked on button: ") \o clicked_element
          [] element_type = Lit("image") -> Lit("Clicked on image: ") \o clicked_element
          [] element_type = Lit("link") -> Lit("Clicked on link: ") \o clicked_element
          [] OTHER -> Lit("Interacted with: ") \o clicked_element

\* describe_interaction caching the fallback as well
describe_interaction_caching_fallback(step, c, fs, svc) ==
    LET cache_key == describe_cache_key(step)
        cached == get_cached_item(c, fs, cache_key, "description")
    IN  IF cached.raised
        THEN [raised |-> TRUE, hit |-> FALSE, called |-> FALSE, ret |-> PyNone, cache |-> c]
        ELSE IF Truthy(cached.val)
        THEN [raised |-> FALSE, hit |-> TRUE, called |-> FALSE, ret |-> cached.val, cache |-> c]
        ELSE LET description == IF svc.ok THEN Strip(svc.content) ELSE describe_fallback(step) IN
             [raised |-> FALSE, hit |-> FALSE, called |-> TRUE, ret |-> PyStr(description),
              cache |-> cache_item(c, cache_key, PyStr(description), "description", 0)]

\* describe_interaction(client, step) run against cache directory c when the
\* service would answer svc: the value returned, the cache directory left
\* behind, whether the service was called, whether an exception escaped
describe_interaction(step, c, fs, svc) ==
    LET cache_key == describe_cache_key(step)
        cached == get_cached_item(c, fs, cache_key, "description")
    IN  IF cached.raised
        THEN [raised |-> TRUE, hit |-> FALSE, called |-> FALSE, ret |-> PyNone, cache |-> c]
        ELSE IF Truthy(cached.val)
        THEN [raised |-> FALSE, hit |-> TRUE, called |-> FALSE, ret |-> cached.val, cache |-> c]
        ELSE IF svc.ok
        THEN LET description == Strip(svc.content) IN
             [raised |-> FALSE, hit |-> FALSE, called |-> TRUE, ret |-> PyStr(description),
              cache |-> cache_item(c, cache_key, PyStr(description), "description", 0)]
        ELSE [raised |-> FALSE, hit |-> FALSE, called |-> TRUE,
              ret |-> PyStr(describe_fallback(step)), cache |-> c]

(***************************************************************************)
(* Interaction extractor                                                   *)
(***************************************************************************)
Steps(doc) == Get(doc, "steps", <<>>)

\* lines 154-161
chapter_interaction(step, n) ==
    [step_number |-> n,
     action |-> Lit("Started: ") \o Get(step, "title", EmptyStr),
     type |-> Lit("CHAPTER"),
     description |-> Get(step, "subtitle", EmptyStr),
     page |-> EmptyStr,
     url |-> EmptyStr]

\* lines 167-174
click_interaction(step, n, action_description) ==
    [step_number |-> n,
     action |-> action_description,
     type |-> step["type"],
     element |-> Get(Get(step, "clickContext", EmptyDict), "text", EmptyStr),
     page |-> Get(Get(step, "pageContext", EmptyDict), "title", EmptyStr),
     url |-> Get(Get(step, "pageContext", EmptyDict), "url", EmptyStr)]

\* numbering by position in the document
step_number_for_position(interactions, i) == i + 1

\* lines 155 and 168: the number given to the interaction emitted for the
\* step at document position i (0-based) when interactions are already out
step_number_for(interactions, i) == Len(interactions) + 1

\* only IMAGE steps taken as captures
IsCapture_image_only(step) == Get(step, "type", EmptyStr) = Lit("IMAGE")

IsChapter(step) == Get(step, "type", EmptyStr) = Lit("CHAPTER")
IsCapture(step) == Get(step, "type", EmptyStr) \in {Lit("IMAGE"), Lit("VIDEO")}

(***************************************************************************)
(* Narrative generator                                                     *)
(***************************************************************************)
\* line 184: the data string of a summary fingerprint
summary_data_string(flow_name, num_interactions) == flow_name \o US \o ToStr(num_interactions)

summary_cache_key(interactions, doc) ==
    get_cache_key(Lit("summary"),
                  summary_data_string(Get(doc, "name", EmptyStr), Len(interactions)))

\* the fallback counting the steps of the document
summary_fallback_counting_steps(interactions, doc) ==
    Lit("User completed flow: ") \o Get(doc, "name", EmptyStr) \o Lit(" with ")
        \o ToStr(Len(Steps(doc))) \o Lit(" actions.")

\* line 242
summary_fallback(interactions, doc) ==
    Lit("User completed flow: ") \o Get(doc, "name", EmptyStr) \o Lit(" with ")
        \o ToStr(Len(interactions)) \o Lit(" actions.")

\* generate_flow_summary(client, user_interactions, flow_data); the prompt
\* (lines 190-222) only feeds the service, whose answer is svc
generate_flow_summary(interactions, doc, c, fs, svc) ==
    LET cache_key == summary_cache_key(interactions, doc)
        cached == get_cached_item(c, fs, cache_key, "summary")
    IN  IF cached.raised
        THEN [raised |-> TRUE, hit |-> FALSE, called |-> FALSE, ret |-> PyNone, cache |-> c]
        ELSE IF Truthy(cached.val)
        THEN [raised |-> FALSE, hit |-> TRUE, called |-> FALSE, ret |-> cached.val, cache |-> c]
        ELSE IF svc.ok
        THEN LET summary == Strip(svc.content) IN
             [raised |-> FALSE, hit |-> FALSE, called |-> TRUE, ret |-> PyStr(summary),
              cache |-> cache_item(c, cache_key, PyStr(summary), "summary", 0)]
        ELSE [raised |-> FALSE, hit |-> FALSE, called |-> TRUE,
              ret |-> PyStr(summary_fallback(interactions, doc)), cache |-> c]

(***************************************************************************)
(* Image synthesizer                                                       *)
(***************************************************************************)
\* line 280: the data string of an image fingerprint
image_data_string(flow_name, summary) == flow_name \o US \o Prefix(md5_hexdigest(summary), 10)

image_cache_key(summary, doc) ==
    get_cache_key(Lit("image"), image_data_string(Get(doc, "name", EmptyStr), summary))

\* lines 307-309
image_file_name(doc, t) ==
    Lit("social_media_image_") \o Prefix(ReplaceSep(Get(doc, "name", Lit("flow"))), 30)
        \o US \o ToStr(t) \o Lit(".png")

\* generate_social_media_image caching and returning the path of a file it
\* does not write
generate_social_media_image_never_saving(summary, doc, c, fs, out, t) ==
    LET cache_key == image_cache_key(summary, doc)
        cached == get_cached_item(c, fs, cache_key, "image")
        image_file == image_file_name(doc, t)
    IN  IF cached.raised
        THEN [raised |-> TRUE, hit |-> FALSE, called |-> FALSE, ret |-> PyNone,
              cache |-> c, files |-> fs]
        ELSE IF Truthy(cached.val)
        THEN [raised |-> FALSE, hit |-> TRUE, called |-> FALSE, ret |-> cached.val,
              cache |-> c, files |-> fs]
        ELSE CASE out = "ok" ->
                    [raised |-> FALSE, hit |-> FALSE, called |-> TRUE,
                     ret |-> PyPair(image_file, ImageUrl),
                     cache |-> cache_item(c, cache_key, PyPair(image_file, ImageUrl), "image", t),
                     files |-> fs]
               [] OTHER ->
                    [raised |-> FALSE, hit |-> FALSE, called |-> TRUE, ret |-> PyNone,
                     cache |-> c, files |-> fs]

\* generate_social_media_image(client, flow_summary, flow_data, user_interactions)
\* at time t when the generation would end as out
generate_social_media_image(summary, doc, c, fs, out, t) ==
    LET cache_key == image_cache_key(summary, doc)
        cached == get_cached_item(c, fs, cache_key, "image")
        image_file == image_file_name(doc, t)
    IN  IF cached.raised
        THEN [raised |-> TRUE, hit |-> FALSE, called |-> FALSE, ret |-> PyNone,
              cache |-> c, files |-> fs]
        ELSE IF Truthy(cached.val)
        THEN [raised |-> FALSE, hit |-> TRUE, called |-> FALSE, ret |-> cached.val,
              cache |-> c, files |-> fs]
        ELSE CASE out = "ok" ->
                    [raised |-> FALSE, hit |-> FALSE, called |-> TRUE,
                     ret |-> PyPair(image_file, ImageUrl),
                     cache |-> cache_item(c, cache_key, PyPair(image_file, ImageUrl), "image", t),
                     files |-> fs \cup {image_file}]
               [] out = "write_fail" ->
                    [raised |-> FALSE, hit |-> FALSE, called |-> TRUE, ret |-> PyNone,
                     cache |-> c, files |-> fs \cup {image_file}]
               [] OTHER ->
                    [raised |-> FALSE, hit |-> FALSE, called |-> TRUE, ret |-> PyNone,
                     cache |-> c, files |-> fs]

(***************************************************************************)
(* Report assembler                                                        *)
(***************************************************************************)
NoReport == [written |-> FALSE, image_ref |-> PyNone, placeholder |-> FALSE,
             summary |-> EmptyStr, interactions |-> <<>>]

\* create_markdown_report referring to the image without looking for its file
create_markdown_report_without_existence_check(interactions, summary, image_file, doc, fs) ==
    LET image_path_in_report ==
            IF Truthy(image_file)
            THEN PyStr(Lit("images/") \o image_file.a)
            ELSE PyNone
    IN  [written |-> TRUE,
         image_ref |-> IF Truthy(image_path_in_report) THEN image_path_in_report ELSE PyNone,
         placeholder |-> ~Truthy(image_path_in_report),
         summary |-> summary,
         interactions |-> interactions]

\* create_markdown_report: lines 340-353 decide the image reference,
\* lines 410-417 the image section
create_markdown_report(interactions, summary, image_file, doc, fs) ==
    LET image_path_in_report ==
            IF Truthy(image_file) /\ image_file.a \in fs
            THEN PyStr(Lit("images/") \o image_file.a)
            ELSE PyNone
    IN  [written |-> TRUE,
         image_ref |-> IF Truthy(image_path_in_report) THEN image_path_in_report ELSE PyNone,
         placeholder |-> ~Truthy(image_path_in_report),
         summary |-> summary,
         interactions |-> interactions]

(***************************************************************************)
(* Input documents                                                         *)
(***************************************************************************)
Page(t, u) == [title |-> t, url |-> u]
Click(text, et) == [text |-> text, elementType |-> et]

StepChapter == [type |-> Lit("CHAPTER"), id |-> <<"1">>, title |-> <<"A">>, subtitle |-> <<"s">>]
StepChapterEmpty == [type |-> Lit("CHAPTER"), id |-> <<"2">>, title |-> EmptyStr]
StepChapterNoTitle == [type |-> Lit("CHAPTER"), id |-> <<"3">>]
StepClickA == [type |-> Lit("IMAGE"), id |-> <<"a", "_", "b">>,
               clickContext |-> Click(<<"c">>, Lit("button")),
               pageContext |-> Page(<<"P">>, <<"p">>)]
StepClickB == [type |-> Lit("VIDEO"), id |-> <<"a">>,
               clickContext |-> Click(<<"b", "_", "c">>, Lit("link")),
               pageContext |-> Page(<<"Q">>, <<"q">>)]
StepClickA2 == [type |-> Lit("IMAGE"), id |-> <<"a", "_", "b">>,
                clickContext |-> Click(<<"c">>, Lit("link")),
                pageContext |-> Page(<<"Q">>, <<"q">>)]
StepNoClick == [type |-> Lit("IMAGE"), id |-> <<"4">>, pageContext |-> Page(<<"P">>, <<"p">>)]
StepOther == [type |-> Lit("HOTSPOT"), id |-> <<"5">>,
              clickContext |-> Click(<<"c">>, Lit("button"))]

StepPool == {StepChapter, StepChapterEmpty, StepChapterNoTitle, StepClickA, StepClickB,
             StepClickA2, StepNoClick, StepOther}

Doc(name, steps) == [name |-> name, steps |-> steps]
NoDoc == [steps |-> <<>>]

\* the documents the pipeline is run on
FlowDocuments ==
    { Doc(<<"F", " ", "G">>, <<StepChapter, StepChapterEmpty, StepClickA>>),
      Doc(<<"F", " ", "G">>, <<StepOther, StepClickA2, StepNoClick, StepClickB>>) }

(***************************************************************************)
(* Observations kept for the properties                                    *)
(***************************************************************************)
NoFirst == [known |-> FALSE, ret |-> PyNone]

NoBefore == [op |-> "none", inputs |-> <<>>, key |-> <<>>, failed |-> FALSE]

NoCall == [op |-> "none", arg |-> NoDoc, inputs |-> <<>>, key |-> <<>>,
           avail |-> TextFail, hit |-> FALSE, called |-> FALSE, raised |-> FALSE,
           ret |-> PyNone, wrote |-> FALSE, stale |-> FALSE,
           first |-> NoFirst, before |-> NoBefore]

\* the part of an observation kept about the call before it
BeforeOf(o) ==
    [op |-> o.op, inputs |-> o.inputs, key |-> o.key, failed |-> o.called /\ ~o.avail.ok]

\* the cache holds a well-formed image entry for key whose file is gone
StaleImageEntry(c, fs, key) ==
    /\ key \in DOMAIN c
    /\ IsJson(c[key])
    /\ "filename" \in DOMAIN c[key]
    /\ c[key]["filename"] \notin fs

\* the first value the service gave for (kind, inputs) since the cache
\* directory and the working directory were last touched from outside, if any
FirstOf(fg, kind, inputs) ==
    IF <<kind, inputs>> \in DOMAIN fg THEN fg[<<kind, inputs>>] ELSE NoFirst

\* first_gen after a call: a value obtained from the service is remembered
\* if it is the first for (kind, inputs)
Remember(fg, kind, inputs, svc, r) ==
    IF r.called /\ svc.ok /\ ~r.raised /\ <<kind, inputs>> \notin DOMAIN fg
    THEN [k \in DOMAIN fg \cup {<<kind, inputs>>} |->
             IF k = <<kind, inputs>> THEN [known |-> TRUE, ret |-> r.ret] ELSE fg[k]]
    ELSE fg

\* what a component call was given, did and returned; c and fs are the cache
\* directory and the files before the call
Observe(op, arg, inputs, key, svc, r, c, fs) ==
    [op |-> op, arg |-> arg, inputs |-> inputs, key |-> key, avail |-> svc,
     hit |-> r.hit, called |-> r.called, raised |-> r.raised, ret |-> r.ret,
     wrote |-> r.cache # c, stale |-> StaleImageEntry(c, fs, key),
     first |-> FirstOf(first_gen, op, inputs), before |-> BeforeOf(last)]

NoPrev == [valid |-> FALSE, flow_data |-> NoDoc, interactions |-> <<>>,
           summary |-> EmptyStr, image_filename |-> PyNone]

NoCalls == [text |-> 0, image |-> 0]

description_inputs(step) == <<Get(step, "id", EmptyStr), clicked_element_of(step)>>
summary_inputs(interactions, doc) == <<Get(doc, "name", EmptyStr), ToStr(Len(interactions))>>
image_inputs(summary, doc) == <<Get(doc, "name", EmptyStr), Prefix(md5_hexdigest(summary), 10)>>

(***************************************************************************)
(* main()                                                                  *)
(***************************************************************************)
Idle == stage \in {"idle", "done", "exit1", "crashed"}

StageAfterExtract(doc, i) == IF i = Len(Steps(doc)) THEN "summary" ELSE "extract"

\* the credential check of lines 476-480 left out
PreconditionsHold_without_credential_check(pre) == pre \in {"ok", "no_key"}

\* lines 458-480: the input file exists, it parses as JSON, the credential
\* is set; pre is what the run finds
PreconditionsHold(pre) == pre = "ok"

\* lines 456-482: argument parsing, the three fatal preconditions, setup
StartRun(doc, skip, pre) ==
    /\ Idle
    /\ run < MaxRuns
    /\ run' = run + 1
    /\ precond' = pre
    /\ skip_image' = skip
    /\ idx' = 0
    /\ user_interactions' = <<>>
    /\ flow_summary' = EmptyStr
    /\ image_filename' = PyNone
    /\ image_url' = PyNone
    /\ report' = NoReport
    /\ calls' = NoCalls
    /\ run_ok' = TRUE
    /\ last' = NoCall
    /\ IF PreconditionsHold(pre)
       THEN /\ flow_data' = doc
            /\ stage' = StageAfterExtract(doc, 0)
            /\ exit_status' = -1
       ELSE /\ flow_data' = NoDoc
            /\ stage' = "exit1"
            /\ exit_status' = 1
    /\ UNCHANGED <<cache, files, now, first_gen, tampered, prev, cache_op>>

\* lines 151-161: a CHAPTER step
ExtractChapter ==
    /\ stage = "extract"
    /\ idx < Len(Steps(flow_data))
    /\ LET step == Steps(flow_data)[idx + 1] IN
       /\ IsChapter(step)
       /\ user_interactions' =
             IF Get(step, "title", EmptyStr) # EmptyStr
             THEN Append(user_interactions,
                         chapter_interaction(step, step_number_for(user_interactions, idx)))
             ELSE user_interactions
    /\ idx' = idx + 1
    /\ stage' = StageAfterExtract(flow_data, idx + 1)
    /\ UNCHANGED <<flow_data, skip_image, flow_summary, image_filename, image_url, cache,
                   files, now, exit_status, report, last, first_gen, calls, run, precond, tampered, run_ok, prev, cache_op>>

\* lines 163-174: an IMAGE or VIDEO step
ExtractCapture(svc) ==
    /\ stage = "extract"
    /\ idx < Len(Steps(flow_data))
    /\ LET step == Steps(flow_data)[idx + 1] IN
       /\ IsCapture(step)
       /\ IF "clickContext" \in DOMAIN step
          THEN LET r == describe_interaction(step, cache, files, svc) IN
               /\ r.called \/ svc = TextFail
               /\ last' = Observe("describe", step, description_inputs(step),
                                  describe_cache_key(step), svc, r, cache, files)
               /\ first_gen' = Remember(first_gen, "describe", description_inputs(step),
                                        svc, r)
               /\ cache' = r.cache
               /\ calls' = IF r.called THEN [calls EXCEPT !.text = @ + 1] ELSE calls
               /\ run_ok' = (run_ok /\ ~(r.called /\ ~svc.ok))
               /\ IF r.raised
                  THEN /\ stage' = "crashed"
                       /\ exit_status' = 1
                       /\ UNCHANGED <<user_interactions, idx>>
                  ELSE /\ user_interactions' =
                            Append(user_interactions,
                                   click_interaction(step,
                                                     step_number_for(user_interactions, idx),
                                                     r.ret.a))
                       /\ idx' = idx + 1
                       /\ stage' = StageAfterExtract(flow_data, idx + 1)
                       /\ UNCHANGED exit_status
          ELSE /\ svc = TextFail
               /\ idx' = idx + 1
               /\ stage' = StageAfterExtract(flow_data, idx + 1)
               /\ UNCHANGED <<user_interactions, last, first_gen, cache, calls, run_ok,
                              exit_status>>
    /\ UNCHANGED <<flow_data, skip_image, flow_summary, image_filename, image_url, files,
                   now, report, run, precond, tampered, prev, cache_op>>

\* a step of any other type falls through both branches
ExtractOther ==
    /\ stage = "extract"
    /\ idx < Len(Steps(flow_data))
    /\ LET step == Steps(flow_data)[idx + 1] IN
       /\ ~IsChapter(step)
       /\ ~IsCapture(step)
    /\ idx' = idx + 1
    /\ stage' = StageAfterExtract(flow_data, idx + 1)
    /\ UNCHANGED <<flow_data, skip_image, user_interactions, flow_summary, image_filename,
                   image_url, cache, files, now, exit_status, report, last, first_gen, calls, run, precond,
                   tampered, run_ok, prev, cache_op>>

\* the image stage entered whatever the flag says
StageAfterSummary_always_image(skip) == "image"

\* line 497: the stage that follows the summary
StageAfterSummary(skip) == IF skip THEN "report" ELSE "image"

\* lines 489-492
Summarize(svc) ==
    /\ stage = "summary"
    /\ LET r == generate_flow_summary(user_interactions, flow_data, cache, files, svc) IN
       /\ r.called \/ svc = TextFail
       /\ last' = Observe("summarize",
                          [doc |-> flow_data, interactions |-> user_interactions],
                          summary_inputs(user_interactions, flow_data),
                          summary_cache_key(user_interactions, flow_data), svc, r,
                          cache, files)
       /\ first_gen' = Remember(first_gen, "summarize",
                                summary_inputs(user_interactions, flow_data), svc, r)
       /\ cache' = r.cache
       /\ calls' = IF r.called THEN [calls EXCEPT !.text = @ + 1] ELSE calls
       /\ run_ok' = (run_ok /\ ~(r.called /\ ~svc.ok))
       /\ IF r.raised
          THEN /\ stage' = "crashed"
               /\ exit_status' = 1
               /\ UNCHANGED flow_summary
          ELSE /\ flow_summary' = r.ret.a
               /\ stage' = StageAfterSummary(skip_image)
               /\ UNCHANGED exit_status
    /\ UNCHANGED <<flow_data, skip_image, idx, user_interactions, image_filename, image_url,
                   files, now, report, run, precond, tampered, prev, cache_op>>

\* lines 494-505
Synthesize(out, t) ==
    /\ stage = "image"
    /\ t \in now .. Min(now + 1, MaxClock)
    /\ now' = t
    /\ LET r == generate_social_media_image(flow_summary, flow_data, cache, files, out, t) IN
       /\ r.called \/ (out = "service_fail" /\ t = now)
       /\ last' = Observe("synthesize", flow_data, image_inputs(flow_summary, flow_data),
                          image_cache_key(flow_summary, flow_data), ImageOutcome(out), r,
                          cache, files)
       /\ first_gen' = Remember(first_gen, "synthesize",
                                image_inputs(flow_summary, flow_data), ImageOutcome(out), r)
       /\ cache' = r.cache
       /\ files' = r.files
       /\ calls' = IF r.called THEN [calls EXCEPT !.image = @ + 1] ELSE calls
       /\ run_ok' = (run_ok /\ ~(r.called /\ out # "ok"))
       /\ IF r.raised
          THEN /\ stage' = "crashed"
               /\ exit_status' = 1
               /\ UNCHANGED <<image_filename, image_url>>
          ELSE /\ image_filename' = IF r.ret.t = "pair" THEN PyStr(r.ret.a) ELSE PyNone
               /\ image_url' = IF r.ret.t = "pair" THEN PyStr(r.ret.b) ELSE PyNone
               /\ stage' = "report"
               /\ UNCHANGED exit_status
    /\ UNCHANGED <<flow_data, skip_image, idx, user_interactions, flow_summary, report, run, precond,
                   tampered, prev, cache_op>>

\* lines 509-519
Report ==
    /\ stage = "report"
    /\ report' = create_markdown_report(user_interactions, flow_summary, image_filename,
                                        flow_data, files)
    /\ stage' = "done"
    /\ exit_status' = 0
    /\ prev' = IF run_ok /\ ~skip_image /\ image_filename.a \in files
                THEN [valid |-> TRUE, flow_data |-> flow_data,
                      interactions |-> user_interactions, summary |-> flow_summary,
                      image_filename |-> image_filename]
                ELSE NoPrev
    /\ UNCHANGED <<flow_data, skip_image, idx, user_interactions, flow_summary,
                   image_filename, image_url, cache, files, now, last, first_gen, calls, run, precond, tampered,
                   run_ok, cache_op>>

(***************************************************************************)
(* Environment: the working directory and the cache directory are plain    *)
(* files that can be removed or damaged outside the program.  A change     *)
(* made while a run is between two file accesses has the effect of the     *)
(* same change made just before the next access, so the cache is damaged   *)
(* between runs and an image file removed between runs or before the       *)
(* report is assembled.                                                    *)
(***************************************************************************)
DeleteImageFile(f) ==
    /\ Idle \/ stage = "report"
    /\ tampered < MaxTamper
    /\ f \in files
    /\ files' = files \ {f}
    /\ tampered' = tampered + 1
    /\ first_gen' = <<>>
    /\ prev' = NoPrev
    /\ UNCHANGED <<stage, flow_data, skip_image, idx, user_interactions, flow_summary,
                   image_filename, image_url, cache, now, exit_status, report, last, calls,
                   run, precond, run_ok, cache_op>>

CorruptCacheFile(k) ==
    /\ Idle
    /\ tampered < MaxTamper
    /\ k \in DOMAIN cache
    /\ cache[k] # Malformed
    /\ cache' = [cache EXCEPT ![k] = Malformed]
    /\ tampered' = tampered + 1
    /\ first_gen' = <<>>
    /\ prev' = NoPrev
    /\ UNCHANGED <<stage, flow_data, skip_image, idx, user_interactions, flow_summary,
                   image_filename, image_url, files, now, exit_status, report, last, calls,
                   run, precond, run_ok, cache_op>>

Preconditions == {"ok", "no_file", "bad_json", "no_key"}

NoCacheOp == [op |-> "none", key |-> <<>>, kind |-> "none", item |-> PyNone,
              ret |-> PyNone, raised |-> FALSE, after_put |-> FALSE]

Init ==
    /\ stage = "idle"
    /\ flow_data = NoDoc
    /\ skip_image = FALSE
    /\ idx = 0
    /\ user_interactions = <<>>
    /\ flow_summary = EmptyStr
    /\ image_filename = PyNone
    /\ image_url = PyNone
    /\ cache = <<>>
    /\ files = {}
    /\ now = 0
    /\ exit_status = -1
    /\ report = NoReport
    /\ last = NoCall
    /\ first_gen = <<>>
    /\ calls = NoCalls
    /\ run = 0
    /\ precond = "none"
    /\ tampered = 0
    /\ run_ok = TRUE
    /\ prev = NoPrev
    /\ cache_op = NoCacheOp

Next ==
    \/ \E doc \in FlowDocuments, skip \in BOOLEAN, pre \in Preconditions : StartRun(doc, skip, pre)
    \/ ExtractChapter
    \/ \E svc \in TextOutcomes : ExtractCapture(svc)
    \/ ExtractOther
    \/ \E svc \in TextOutcomes : Summarize(svc)
    \/ \E out \in ImageOutcomes, t \in 0 .. MaxClock : Synthesize(out, t)
    \/ Report
    \/ \E f \in files : DeleteImageFile(f)
    \/ \E k \in DOMAIN cache : CorruptCacheFile(k)

Spec == Init /\ [][Next]_vars

(***************************************************************************)
(* Extraction alone, over every step sequence up to MaxSteps               *)
(***************************************************************************)
StepSeqs(n) == UNION {[1 .. k -> StepPool] : k \in 0 .. n}

\* cache directories an extraction may start with: empty, holding a
\* description written by an earlier run, holding a damaged file
ExtractCaches ==
    { <<>>,
      cache_item(<<>>, describe_cache_key(StepClickA), PyStr(<<"x">>), "description", 0),
      [k \in {describe_cache_key(StepClickA)} |-> Malformed] }

InitExtract ==
    /\ flow_data \in {Doc(<<"F", " ", "G">>, steps) : steps \in StepSeqs(MaxSteps)}
    /\ stage = StageAfterExtract(flow_data, 0)
    /\ cache \in ExtractCaches
    /\ skip_image = FALSE
    /\ idx = 0
    /\ user_interactions = <<>>
    /\ flow_summary = EmptyStr
    /\ image_filename = PyNone
    /\ image_url = PyNone
    /\ files = {}
    /\ now = 0
    /\ exit_status = -1
    /\ report = NoReport
    /\ last = NoCall
    /\ first_gen = <<>>
    /\ calls = NoCalls
    /\ run = 1
    /\ precond = "ok"
    /\ tampered = 0
    /\ run_ok = TRUE
    /\ prev = NoPrev
    /\ cache_op = NoCacheOp

NextExtract ==
    \/ ExtractChapter
    \/ \E svc \in TextOutcomes : ExtractCapture(svc)
    \/ ExtractOther

ExtractSpec == InitExtract /\ [][NextExtract]_vars

(***************************************************************************)
(* The cache store alone: cache_item and get_cached_item applied directly  *)
(***************************************************************************)
CacheKinds == {"description", "summary", "image"}

CacheKeys == { describe_cache_key(StepClickA),
               image_cache_key(<<"x">>, Doc(<<"F", " ", "G">>, <<>>)) }

ImagePaths == {EmptyStr} \cup {image_file_name(Doc(<<"F", " ", "G">>, <<>>), t) : t \in 0 .. MaxClock}

\* the values a caller can hand to cache_item for a kind
Storable(kind) ==
    IF kind = "image"
    THEN {PyPair(f, ImageUrl) : f \in ImagePaths}
    ELSE {PyStr(str) : str \in {EmptyStr, <<"x">>}}

CachePut(key, kind, item) ==
    /\ cache' = cache_item(cache, key, item, kind, now)
    /\ cache_op' = [op |-> "put", key |-> key, kind |-> kind, item |-> item,
                    ret |-> PyNone, raised |-> FALSE, after_put |-> FALSE]
    /\ UNCHANGED <<stage, flow_data, skip_image, idx, user_interactions, flow_summary,
                   image_filename, image_url, files, now, exit_status, report, last, first_gen, calls,
                   run, precond, tampered, run_ok, prev>>

CacheGet(key, kind) ==
    /\ LET r == get_cached_item(cache, files, key, kind)
           after_put == cache_op.op = "put" /\ cache_op.key = key /\ cache_op.kind = kind
       IN  cache_op' = [op |-> "get", key |-> key, kind |-> kind,
                        item |-> IF after_put THEN cache_op.item ELSE PyNone,
                        ret |-> r.val, raised |-> r.raised, after_put |-> after_put]
    /\ UNCHANGED <<stage, flow_data, skip_image, idx, user_interactions, flow_summary,
                   image_filename, image_url, cache, files, now, exit_status, report, last, first_gen,
                   calls, run, precond, tampered, run_ok, prev>>

InitCache ==
    /\ cache = <<>>
    /\ files \in SUBSET {image_file_name(Doc(<<"F", " ", "G">>, <<>>), 0)}
    /\ now \in 0 .. MaxClock
    /\ cache_op = NoCacheOp
    /\ stage = "idle"
    /\ flow_data = NoDoc
    /\ skip_image = FALSE
    /\ idx = 0
    /\ user_interactions = <<>>
    /\ flow_summary = EmptyStr
    /\ image_filename = PyNone
    /\ image_url = PyNone
    /\ exit_status = -1
    /\ report = NoReport
    /\ last = NoCall
    /\ first_gen = <<>>
    /\ calls = NoCalls
    /\ run = 0
    /\ precond = "none"
    /\ tampered = 0
    /\ run_ok = TRUE
    /\ prev = NoPrev

NextCache ==
    \/ \E key \in CacheKeys, kind \in CacheKinds : \E item \in Storable(kind) : CachePut(key, kind, item)
    \/ \E key \in CacheKeys, kind \in CacheKinds : CacheGet(key, kind)

CacheSpec == InitCache /\ [][NextCache]_vars

(***************************************************************************)
(* describe_interaction and generate_flow_summary alone, called on one     *)
(* click step and on a document with any number of interactions            *)
(***************************************************************************)
StepImageElement == [type |-> Lit("IMAGE"), id |-> <<"6">>,
                     clickContext |-> Click(<<"S">>, Lit("image"))]
StepDivElement == [type |-> Lit("IMAGE"), id |-> <<"7">>,
                   clickContext |-> Click(<<"S">>, Lit("div"))]
StepNoElementType == [type |-> Lit("VIDEO"), id |-> <<"8">>, clickContext |-> [text |-> <<"S">>]]
StepNoText == [type |-> Lit("IMAGE"), id |-> <<"9">>,
               clickContext |-> [elementType |-> Lit("button")]]

ClickPool == {StepClickA, StepClickB, StepImageElement, StepDivElement, StepNoElementType,
              StepNoText}

\* documents with a name, with an empty name, without a name
CallDocuments ==
    {Doc(name, <<step>>) : name \in {<<"F", " ", "G">>, EmptyStr}, step \in ClickPool}
        \cup {[steps |-> <<step>>] : step \in ClickPool}

InteractionsOf(n) == [k \in 1 .. n |-> chapter_interaction(StepChapter, k)]

\* cache directories a call may find: empty, a damaged file under the key
\* it is about to look up, an empty description left by an earlier call
CallCaches(doc, interactions) ==
    { <<>>,
      [k \in {describe_cache_key(Steps(doc)[1])} |-> Malformed],
      [k \in {summary_cache_key(interactions, doc)} |-> Malformed],
      cache_item(<<>>, describe_cache_key(Steps(doc)[1]), PyStr(EmptyStr), "description", 0) }

DescribeCall(svc) ==
    /\ LET step == Steps(flow_data)[1]
           r == describe_interaction(step, cache, files, svc)
       IN  /\ r.called \/ svc = TextFail
           /\ last' = Observe("describe", step, description_inputs(step),
                              describe_cache_key(step), svc, r, cache, files)
           /\ cache' = r.cache
    /\ UNCHANGED <<stage, flow_data, skip_image, idx, user_interactions, flow_summary,
                   image_filename, image_url, files, now, exit_status, report, first_gen,
                   calls, run, precond, tampered, run_ok, prev, cache_op>>

SummarizeCall(svc) ==
    /\ LET r == generate_flow_summary(user_interactions, flow_data, cache, files, svc) IN
       /\ r.called \/ svc = TextFail
       /\ last' = Observe("summarize",
                          [doc |-> flow_data, interactions |-> user_interactions],
                          summary_inputs(user_interactions, flow_data),
                          summary_cache_key(user_interactions, flow_data), svc, r,
                          cache, files)
       /\ cache' = r.cache
    /\ UNCHANGED <<stage, flow_data, skip_image, idx, user_interactions, flow_summary,
                   image_filename, image_url, files, now, exit_status, report, first_gen,
                   calls, run, precond, tampered, run_ok, prev, cache_op>>

InitCall ==
    /\ flow_data \in CallDocuments
    /\ user_interactions \in {InteractionsOf(n) : n \in 0 .. MaxSteps}
    /\ cache \in CallCaches(flow_data, user_interactions)
    /\ stage = "idle"
    /\ skip_image = FALSE
    /\ idx = 0
    /\ flow_summary = EmptyStr
    /\ image_filename = PyNone
    /\ image_url = PyNone
    /\ files = {}
    /\ now = 0
    /\ exit_status = -1
    /\ report = NoReport
    /\ last = NoCall
    /\ first_gen = <<>>
    /\ calls = NoCalls
    /\ run = 0
    /\ precond = "none"
    /\ tampered = 0
    /\ run_ok = TRUE
    /\ prev = NoPrev
    /\ cache_op = NoCacheOp

NextCall ==
    \/ \E svc \in TextOutcomes : DescribeCall(svc)
    \/ \E svc \in TextOutcomes : SummarizeCall(svc)

CallSpec == InitCall /\ [][NextCall]_vars

(***************************************************************************)
(* Properties                                                              *)
(***************************************************************************)
\* C1: a cache lookup on a missing or malformed cache file yields 'absent'
\* and the operation goes on as on a miss: no lookup raises, and no run ends
\* in a fatal termination because of a cache file.
C1_MalformedCacheIsMiss ==
    /\ ~last.raised
    /\ stage # "crashed"

\* C2: once a describe call has obtained a description from the service,
\* every later describe call on a step with the same (id, clicked-element
\* text), in the same run or a later one, the cache directory untouched in
\* between, returns that description and calls no service.
C2_RepeatDescribeUsesCache ==
    (last.op = "describe" /\ last.first.known)
        => (~last.called /\ last.ret = last.first.ret)

FallbackOf(o) ==
    IF o.op = "describe" THEN describe_fallback(o.arg)
    ELSE summary_fallback(o.arg.interactions, o.arg.doc)

\* C3: a describe or summarize call whose service call fails returns the
\* fallback and writes nothing to the cache; the next call with the same
\* fingerprint calls the service again and, when the service answers,
\* returns the answer.
C3_FallbackNotCached ==
    last.op \in {"describe", "summarize"} =>
        /\ (last.called /\ ~last.avail.ok)
              => (~last.wrote /\ last.ret = PyStr(FallbackOf(last)))
        /\ (last.before.failed /\ last.before.op = last.op /\ last.before.key = last.key)
              => /\ last.called
                 /\ last.avail.ok => last.ret = PyStr(Strip(last.avail.content))

C3_Witness ==
    /\ last.op = "describe"
    /\ last.before.op = "describe"
    /\ last.before.failed
    /\ last.before.key = last.key
    /\ user_interactions[Len(user_interactions) - 1]["action"] = describe_fallback(StepClickA2)
    /\ last.called
    /\ last.avail.ok
    /\ last.ret = PyStr(<<"x">>)

\* C4 as stated: for every kind, key and storable value v, get right after
\* put returns v.
C4_RoundTripEveryValue ==
    (cache_op.op = "get" /\ cache_op.after_put) => cache_op.ret = cache_op.item

\* C4 amended: get right after put returns v for a description and a
\* summary; for an image it returns the stored (file-path, source-url) pair
\* when file-path is non-empty and names a file that exists, and absent
\* otherwise.
C4_RoundTrip ==
    (cache_op.op = "get" /\ cache_op.after_put) =>
        /\ ~cache_op.raised
        /\ IF cache_op.kind = "image"
              /\ ~(cache_op.item.a # EmptyStr /\ cache_op.item.a \in files)
           THEN cache_op.ret = PyNone
           ELSE cache_op.ret = cache_op.item

C4_Witness ==
    /\ cache_op.op = "get"
    /\ cache_op.after_put
    /\ cache_op.kind = "image"
    /\ cache_op.item.a \in files
    /\ cache_op.ret = cache_op.item
    /\ cache_op.ret.b = ImageUrl

\* C5: a run that follows a run on the same document in which every
\* generation succeeded, nothing in the cache directory or the working
\* directory having been touched, calls no service and ends with the same
\* interactions, summary and image path.
C5_IdempotentRerun ==
    [][(/\ stage = "report"
        /\ stage' = "done"
        /\ prev.valid
        /\ ~skip_image
        /\ prev.flow_data = flow_data)
       => (/\ calls = NoCalls
           /\ user_interactions = prev.interactions
           /\ flow_summary = prev.summary
           /\ image_filename = prev.image_filename)]_vars

\* C6: a run that passed the three preconditions ends with exit status 0
\* and a written report.
C6_RunCompletes ==
    (flow_data # NoDoc /\ exit_status # -1) => (exit_status = 0 /\ report.written)

\* C7: a synthesize call that finds an image cache entry whose file is gone
\* does not take the entry as a hit: it calls the image service, and when
\* the generation succeeds it returns, and caches, the path of a file that
\* exists.
C7_StaleImageEntryIsMiss ==
    [][(/\ stage = "image"
        /\ stage' # "image"
        /\ StaleImageEntry(cache, files, image_cache_key(flow_summary, flow_data)))
       => LET o == last'
              key == image_cache_key(flow_summary, flow_data)
          IN  /\ ~o.hit
              /\ o.called
              /\ calls'.image = calls.image + 1
              /\ o.avail.ok =>
                    /\ o.ret.t = "pair"
                    /\ o.ret.a \in files'
                    /\ cache'[key]["filename"] = o.ret.a
                    /\ image_filename' = PyStr(o.ret.a)]_vars

C7_Witness ==
    LET o == last IN
    /\ o.op = "synthesize"
    /\ o.stale
    /\ o.called
    /\ o.avail.ok
    /\ o.ret.t = "pair"
    /\ o.ret.a \in files
    /\ stage = "report"

\* a step that the specification says yields an interaction
Qualifies(step) ==
    \/ /\ "type" \in DOMAIN step
       /\ step["type"] = Lit("CHAPTER")
       /\ "title" \in DOMAIN step
       /\ step["title"] # EmptyStr
    \/ /\ "type" \in DOMAIN step
       /\ step["type"] \in {Lit("IMAGE"), Lit("VIDEO")}
       /\ "clickContext" \in DOMAIN step

\* C8: at every point of the extraction the interactions emitted so far are
\* numbered 1, 2, ..., n in order, n being the number of qualifying steps
\* among the steps consumed.
C8_StepNumbersContiguous ==
    /\ \A k \in 1 .. Len(user_interactions) : user_interactions[k]["step_number"] = k
    /\ Len(user_interactions) =
          Cardinality({i \in 1 .. idx : Qualifies(Steps(flow_data)[i])})

C8_Witness ==
    /\ Steps(flow_data) = <<StepChapter, StepChapterEmpty, StepClickA>>
    /\ idx = 3
    /\ Len(user_interactions) = 2
    /\ user_interactions[2]["step_number"] = 2
    /\ user_interactions[2]["type"] = Lit("IMAGE")

\* the interaction i is the one the step st yields
Yields(st, i) ==
    /\ i["type"] = st["type"]
    /\ IF st["type"] = Lit("CHAPTER")
       THEN /\ i["action"] = Lit("Started: ") \o st["title"]
            /\ i["description"] = Get(st, "subtitle", EmptyStr)
       ELSE /\ i["element"] = Get(st["clickContext"], "text", EmptyStr)
            /\ i["page"] = Get(Get(st, "pageContext", EmptyDict), "title", EmptyStr)
            /\ i["url"] = Get(Get(st, "pageContext", EmptyDict), "url", EmptyStr)

\* C9: the interactions emitted are, in document order, one per qualifying
\* step among the steps consumed and nothing else; a step that does not
\* qualify raises no error.
C9_OutputIsQualifyingSteps ==
    LET q == SelectSeq(SubSeq(Steps(flow_data), 1, idx), Qualifies) IN
    /\ Len(user_interactions) = Len(q)
    /\ \A k \in 1 .. Len(q) : Yields(q[k], user_interactions[k])
    /\ stage = "crashed" => (idx < Len(Steps(flow_data)) /\ Qualifies(Steps(flow_data)[idx + 1]))

C9_Witness ==
    /\ Steps(flow_data) = <<StepOther, StepClickB, StepChapterNoTitle>>
    /\ idx = 3
    /\ stage = "summary"
    /\ Len(user_interactions) = 1
    /\ user_interactions[1]["type"] = Lit("VIDEO")

\* C10: fingerprints are deterministic and injective on the semantic
\* inputs: two calls of a component have the same key exactly when their
\* semantic inputs are equal, and calls of different components never have
\* the same key.
C10_FingerprintInjective ==
    /\ last.before.op = last.op
          => ((last.before.inputs = last.inputs) <=> (last.before.key = last.key))
    /\ (last.before.op # "none" /\ last.before.op # last.op)
          => last.before.key # last.key

\* C11: a run that finds the input file absent, the JSON unparseable or the
\* credential unset ends at once with a non-zero exit status: it makes no
\* service call, looks up and writes no cache entry, creates no file and
\* writes no report.
C11_PreconditionFailureIsFatal ==
    [][precond' \in {"no_file", "bad_json", "no_key"}
       => /\ stage' = "exit1"
          /\ exit_status' = 1
          /\ calls' = NoCalls
          /\ last' = NoCall
          /\ ~report'.written
          /\ tampered' = tampered => (cache' = cache /\ files' = files)]_vars

C11_Witness ==
    /\ precond = "no_key"
    /\ stage = "exit1"
    /\ exit_status = 1
    /\ run = 2
    /\ cache # <<>>
    /\ tampered = 0
    /\ ~report.written

\* C12: a synthesize call never raises.  When it finds no usable cache
\* entry and the image-service call, the download or the file write fails,
\* it returns (absent, absent) and the cache directory is left as it was;
\* when the generation succeeds the cache holds, under the call's key, the
\* file path, the source URL and the creation time.
C12_SynthesisFailureIsAbsent ==
    [][(stage = "image" /\ stage' # "image")
       => /\ ~last'.raised
          /\ stage' = "report"
          /\ (last'.called /\ last'.avail.ok)
                => /\ image_filename'.t = "str"
                   /\ image_url' = PyStr(ImageUrl)
                   /\ last'.key \in DOMAIN cache'
                   /\ cache'[last'.key] = [filename |-> image_filename'.a,
                                           url |-> ImageUrl,
                                           created |-> ToStr(now')]
          /\ (last'.called /\ ~last'.avail.ok)
                => /\ image_filename' = PyNone
                   /\ image_url' = PyNone
                   /\ cache' = cache]_vars

\* C13: once a summarize call has obtained a summary from the service for
\* flow name N and k interactions, every later summarize call with flow
\* name N and k interactions, the cache directory untouched in between,
\* returns that summary and calls no service, whatever the interactions
\* and the steps are.
C13_SummaryReusedByNameAndCount ==
    (last.op = "summarize" /\ last.first.known)
        => (~last.called /\ last.ret = last.first.ret)

\* C14: report assembly always completes and writes the report, and the
\* image section holds exactly one of the image reference and the
\* placeholder: the reference, to the copy under images/, exactly when an
\* image path was supplied and its file is there; the placeholder when the
\* path is absent or the file is missing.
C14_ImageSectionReferenceOrPlaceholder ==
    [][(stage = "report" /\ stage' = "done")
       => LET supplied == image_filename.t = "str" /\ image_filename.a # EmptyStr
              found == supplied /\ image_filename.a \in files
          IN  /\ report'.written
              /\ exit_status' = 0
              /\ report'.placeholder # (report'.image_ref # PyNone)
              /\ (report'.image_ref # PyNone) <=> found
              /\ found => report'.image_ref = PyStr(Lit("images/") \o image_filename.a)]_vars

\* an image was generated, its file removed before the report was assembled
C14_Witness ==
    /\ stage = "done"
    /\ ~skip_image
    /\ report.written
    /\ report.placeholder
    /\ report.image_ref = PyNone
    /\ image_filename.t = "str"
    /\ image_filename.a \notin files

\* the stage order of main(): extraction, summary, image unless skipped,
\* report; a stage is left only for the next one or by a fatal error
StageOrder(from, to, skip) ==
    CASE from = "extract" -> to \in {"extract", "summary", "crashed"}
      [] from = "summary" -> to \in {IF skip THEN "report" ELSE "image", "crashed"}
      [] from = "image" -> to \in {"report", "crashed"}
      [] from = "report" -> to \in {"report", "done"}
      [] OTHER -> to \in {from, "extract", "summary", "exit1"}

\* C15: the stages of every run follow one another in the order extraction,
\* summary, image, report, and with the skip-image flag set the image stage
\* is left out altogether: the run never calls the image service, makes no
\* synthesize call (so looks up no image cache entry), writes no image
\* cache entry, creates no image file, and the report is assembled with an
\* absent image path.
C15_SkipImageSkipsSynthesis ==
    [][/\ StageOrder(stage, stage', skip_image')
       /\ (skip_image' /\ precond' = "ok")
             => /\ stage' # "image"
                /\ calls'.image = 0
                /\ last'.op # "synthesize"
                /\ image_filename' = PyNone
                /\ image_url' = PyNone
                /\ files' \subseteq files
                /\ \A k \in DOMAIN cache' :
                      (k \notin DOMAIN cache \/ cache'[k] # cache[k])
                          => "filename" \notin DOMAIN cache'[k]
                /\ report'.written => (report'.image_ref = PyNone /\ report'.placeholder)]_vars

\* a run with the flag set ends with the placeholder although the image an
\* earlier run generated is cached and in place
C15_Witness ==
    /\ stage = "done"
    /\ skip_image
    /\ run = 2
    /\ tampered = 0
    /\ calls.image = 0
    /\ report.written
    /\ report.placeholder
    /\ \E k \in DOMAIN cache : "filename" \in DOMAIN cache[k] /\ cache[k]["filename"] \in files

\* the template the specification gives for an element type and a text
TemplateFor(element_type, text) ==
    CASE element_type = Lit("button") -> Lit("Clicked on button: ") \o text
      [] element_type = Lit("image") -> Lit("Clicked on image: ") \o text
      [] element_type = Lit("link") -> Lit("Clicked on link: ") \o text
      [] OTHER -> Lit("Interacted with: ") \o text

\* C16: no describe call fails outward, and a describe call that misses the
\* cache and whose service call fails returns the template of the step's
\* element type (button, image, link, anything else) applied to the
\* clicked-element text.
C16_DescribeFallbackTemplate ==
    last.op = "describe" =>
        /\ ~last.raised
        /\ (last.called /\ ~last.avail.ok /\ "text" \in DOMAIN last.arg["clickContext"])
              => last.ret = PyStr(TemplateFor(Get(last.arg["clickContext"], "elementType",
                                                  Lit("unknown")),
                                              last.arg["clickContext"]["text"]))

\* C17: a summarize call that misses the cache and whose service call fails
\* returns "User completed flow: {flow name} with {n} actions.", n being the
\* number of interactions it was given, zero included.
C17_SummaryFallbackTemplate ==
    (last.op = "summarize" /\ last.called /\ ~last.avail.ok)
        => /\ ~last.raised
           /\ last.ret = PyStr(Lit("User completed flow: ")
                                   \o Get(last.arg.doc, "name", EmptyStr)
                                   \o Lit(" with ")
                                   \o ToStr(Len(last.arg.interactions))
                                   \o Lit(" actions."))

C17_Witness ==
    /\ last.op = "summarize"
    /\ last.called
    /\ ~last.avail.ok
    /\ user_interactions = <<>>
    /\ last.ret = PyStr(<<"User completed flow: ", "F", " ", "G", " with ", "0", " actions.">>)

\* C18: a step of the program creates a cache entry only under the key of a
\* call whose generation succeeded, and never changes or removes an entry
\* that exists.
C18_CacheEntriesNeverChange ==
    [][tampered' = tampered
       => /\ \A k \in DOMAIN cache : k \in DOMAIN cache' /\ cache'[k] = cache[k]
          /\ \A k \in DOMAIN cache' \ DOMAIN cache :
                last'.called /\ last'.avail.ok /\ last'.key = k]_vars

\* C19: when a synthesize call returns a file path, from the cache or from
\* a fresh generation, the file is there at the moment of the return; and
\* every image cache entry a step of the program creates or replaces names
\* a file that is there when the entry is written.
C19_ReturnedImageFileExists ==
    [][tampered' = tampered
       => /\ (stage = "image" /\ stage' # "image" /\ last'.ret.t = "pair")
                => /\ last'.ret.a \in files'
                   /\ image_filename' = PyStr(last'.ret.a)
          /\ \A k \in DOMAIN cache' :
                (/\ k \notin DOMAIN cache \/ cache'[k] # cache[k]
                 /\ "filename" \in DOMAIN cache'[k])
                    => cache'[k]["filename"] \in files']_vars

\* a path returned from the cache
C19_Witness ==
    /\ stage = "report"
    /\ run = 2
    /\ last.op = "synthesize"
    /\ last.hit
    /\ ~last.called
    /\ last.ret.t = "pair"
    /\ last.ret.a \in files
    /\ image_filename = PyStr(last.ret.a)

====
